---------------------------- MODULE Spec2Model ----------------------------
(***************************************************************************)
(* A model of package xtid: the 20-byte identifier, its base-62 text form, *)
(* the in-place loaders, Make and the entropy pool.                        *)
(*                                                                         *)
(* A byte is a number in 0..255, a []byte or a Go string a sequence of     *)
(* bytes (a character is its ASCII code), an XTID a sequence of exactly    *)
(* byteLength bytes.  An error is a string naming it; NoErr is Go's nil.   *)
(***************************************************************************)
EXTENDS Integers, Sequences, FiniteSets, TLC

VARIABLES
    pc,      \* position of the sequential caller
    a, b,    \* identifier operands of the caller
    s, t,    \* text / byte-slice operands of the caller
    arg,     \* the input of the last call
    ret,     \* what the last call returned
    recv,    \* the identifier variable the in-place loaders write (*i)
    source,  \* the package's entropy source reference
    mux,     \* entropyPool.mux: the goroutine holding it, or "free"
    buffer,  \* entropyPool.buffer: the bufio.Reader's r, w and what it holds
    drawn,   \* bytes the pool has taken from crypto/rand so far
    gor      \* the goroutines: position, locals and finished calls

seqVars == <<pc, a, b, s, t, arg, ret, recv>>
poolVars == <<source, mux, buffer, drawn, gor>>
vars == <<seqVars, poolVars>>

(***************************************************************************)
(* Constants of src/xtid.go                                                *)
(***************************************************************************)
timestampLengthInBytes == 8
payloadLengthInBytes == 10
typeLengthInbytes == 2
byteLength == timestampLengthInBytes + typeLengthInbytes + payloadLengthInBytes
payloadStart == timestampLengthInBytes + typeLengthInbytes
stringEncodedLength == 27

\* "000000000000000000000000000"
minStringEncoded == [i \in 1..stringEncodedLength |-> 48]

\* "aWgEPTl1tmebfsQzFP4bxwgy80V"
maxStringEncoded ==
    <<97, 87, 103, 69, 80, 84, 108, 49, 116, 109, 101, 98, 102, 115,
      81, 122, 70, 80, 52, 98, 120, 119, 103, 121, 56, 48, 86>>

NoErr == "nil"
errSize == "errSize"
errStrSize == "errStrSize"
errStrValue == "errStrValue"
errScanType == "errScanType"

Nil == [i \in 1..byteLength |-> 0]
Max == [i \in 1..byteLength |-> 255]

(***************************************************************************)
(* The base-62 codec.  Its file is not among the sources; it is modelled   *)
(* from the specification's section 4.1: repeated long division of the     *)
(* byte array by 62 to encode, acc = acc*62 + digit over a 160-bit         *)
(* accumulator with overflow detection to decode.                          *)
(***************************************************************************)
base62 == 62
zeroSymbol == 48

\* The alphabet: digits, then upper case, then lower case.
base62Char(d) ==
    IF d < 10 THEN 48 + d
    ELSE IF d < 36 THEN 65 + (d - 10)
    ELSE 97 + (d - 36)

InAlphabet(c) ==
    \/ (c >= 48 /\ c <= 57)
    \/ (c >= 65 /\ c <= 90)
    \/ (c >= 97 /\ c <= 122)

base62Value(c) ==
    IF c >= 48 /\ c <= 57 THEN c - 48
    ELSE IF c >= 65 /\ c <= 90 THEN 10 + (c - 65)
    ELSE 36 + (c - 97)

IsZero(bs) == \A i \in 1..Len(bs) : bs[i] = 0

\* One long division of the big-endian byte array bs by 62:
\* <<quotient bytes, remainder>>.
RECURSIVE DivMod62(_, _, _, _)
DivMod62(bs, i, rem, q) ==
    IF i > Len(bs) THEN <<q, rem>>
    ELSE LET acc == rem * 256 + bs[i]
         IN  DivMod62(bs, i + 1, acc % base62, Append(q, acc \div base62))

\* The symbols of bs, least significant first.
RECURSIVE EncodeDigits(_, _)
EncodeDigits(bs, out) ==
    IF IsZero(bs) THEN out
    ELSE LET dm == DivMod62(bs, 1, 0, <<>>)
         IN  EncodeDigits(dm[1], Append(out, base62Char(dm[2])))

Reverse(q) == [i \in 1..Len(q) |-> q[Len(q) + 1 - i]]

LeftPad(q, n, c) ==
    IF Len(q) >= n THEN q
    ELSE [i \in 1..(n - Len(q)) |-> c] \o q

fastAppendEncodeBase62(dst, src) ==
    dst \o LeftPad(Reverse(EncodeDigits(src, <<>>)), stringEncodedLength, zeroSymbol)

\* acc*62 + d over the byte array acc, from its last byte to its first:
\* <<bytes, carry out of the first byte>>.
RECURSIVE MulAdd62(_, _, _)
MulAdd62(acc, i, carry) ==
    IF i = 0 THEN <<acc, carry>>
    ELSE LET v == acc[i] * base62 + carry
         IN  MulAdd62([acc EXCEPT ![i] = v % 256], i - 1, v \div 256)

RECURSIVE DecodeFrom(_, _, _)
DecodeFrom(src, i, acc) ==
    IF i > Len(src) THEN [dst |-> acc, err |-> NoErr]
    ELSE IF ~InAlphabet(src[i]) THEN [dst |-> acc, err |-> "errValue"]
    ELSE LET m == MulAdd62(acc, Len(acc), base62Value(src[i]))
         IN  IF m[2] # 0 THEN [dst |-> m[1], err |-> "errOverflow"]
             ELSE DecodeFrom(src, i + 1, m[1])

fastDecodeBase62(src) ==
    IF Len(src) # stringEncodedLength
    THEN [dst |-> Nil, err |-> "errValue"]
    ELSE DecodeFrom(src, 1, [i \in 1..byteLength |-> 0])

(***************************************************************************)
(* The identifier's functions (src/xtid.go)                                *)
(***************************************************************************)
XTIDAppend(i, bs) == fastAppendEncodeBase62(bs, i)

String(i) == XTIDAppend(i, <<>>)

Bytes(i) == i

IsNil(i) == i = Nil

\* copy(dst, src) into an array of n zero bytes
CopyInto(n, bs) == [i \in 1..n |-> IF i <= Len(bs) THEN bs[i] ELSE 0]

\* A bug FromBytes could have: only too short an input refused.
FromBytesAtLeast(bs) ==
    IF Len(bs) < byteLength
    THEN [id |-> Nil, err |-> errSize]
    ELSE [id |-> CopyInto(byteLength, bs), err |-> NoErr]

FromBytes(bs) ==
    IF Len(bs) # byteLength
    THEN [id |-> Nil, err |-> errSize]
    ELSE [id |-> CopyInto(byteLength, bs), err |-> NoErr]

\* A bug Parse could have: the length compared with the binary length.
ParseBinaryLength(str) ==
    IF Len(str) # byteLength
    THEN [id |-> Nil, err |-> errStrSize]
    ELSE LET d == fastDecodeBase62(CopyInto(stringEncodedLength, str))
         IN  IF d.err # NoErr
             THEN [id |-> Nil, err |-> errStrValue]
             ELSE FromBytes(d.dst)

\* A bug Parse could have: the decoder's error dropped.
ParseIgnoringError(str) ==
    IF Len(str) # stringEncodedLength
    THEN [id |-> Nil, err |-> errStrSize]
    ELSE FromBytes(fastDecodeBase62(CopyInto(stringEncodedLength, str)).dst)

Parse(str) ==
    IF Len(str) # stringEncodedLength
    THEN [id |-> Nil, err |-> errStrSize]
    ELSE LET d == fastDecodeBase62(CopyInto(stringEncodedLength, str))
         IN  IF d.err # NoErr
             THEN [id |-> Nil, err |-> errStrValue]
             ELSE FromBytes(d.dst)

(***************************************************************************)
(* Comparison and accessors                                                *)
(***************************************************************************)
Sign(n) == IF n < 0 THEN -1 ELSE IF n > 0 THEN 1 ELSE 0

MinOf(x, y) == IF x < y THEN x ELSE y

\* bytes.Compare: lexicographic over unsigned bytes, a proper prefix first.
RECURSIVE BytesCompareFrom(_, _, _)
BytesCompareFrom(x, y, i) ==
    IF i > Len(x) /\ i > Len(y) THEN 0
    ELSE IF i > Len(x) THEN -1
    ELSE IF i > Len(y) THEN 1
    ELSE IF x[i] < y[i] THEN -1
    ELSE IF x[i] > y[i] THEN 1
    ELSE BytesCompareFrom(x, y, i + 1)

BytesCompare(x, y) == BytesCompareFrom(x, y, 1)

\* A bug Compare could have: bytes read as signed (int8) values.
SignedByte(v) == IF v >= 128 THEN v - 256 ELSE v

RECURSIVE SignedCompareFrom(_, _, _)
SignedCompareFrom(x, y, i) ==
    IF i > Len(x) THEN 0
    ELSE IF SignedByte(x[i]) < SignedByte(y[i]) THEN -1
    ELSE IF SignedByte(x[i]) > SignedByte(y[i]) THEN 1
    ELSE SignedCompareFrom(x, y, i + 1)

CompareSigned(x, y) == SignedCompareFrom(x, y, 1)

Compare(x, y) == BytesCompare(x, y)

(***************************************************************************)
(* A uint64 does not fit a model integer: it is kept as its four 16-bit    *)
(* limbs, most significant first.  A time is given by its UnixMicro()      *)
(* int64 in two's complement, in the same limbs.                           *)
(***************************************************************************)
limbBase == 256 * 256

\* binary.BigEndian.Uint16
BigEndianUint16(bs) == bs[1] * 256 + bs[2]

\* binary.BigEndian.Uint64
BigEndianUint64(bs) ==
    [k \in 1..4 |-> BigEndianUint16(<<bs[2 * k - 1], bs[2 * k]>>)]

\* binary.LittleEndian.Uint64, the byte order Timestamp could wrongly use.
LittleEndianUint64(bs) ==
    [k \in 1..4 |-> bs[10 - 2 * k] * 256 + bs[9 - 2 * k]]

\* binary.BigEndian.PutUint16
PutUint16(v) == <<(v \div 256) % 256, v % 256>>

\* binary.BigEndian.PutUint64
PutUint64(limbs) ==
    PutUint16(limbs[1]) \o PutUint16(limbs[2]) \o PutUint16(limbs[3]) \o PutUint16(limbs[4])

SubSeqOf(q, from, to) == [i \in 1..(to - from + 1) |-> q[from + i - 1]]

TimestampLittleEndian(i) == LittleEndianUint64(SubSeqOf(i, 1, timestampLengthInBytes))

Timestamp(i) == BigEndianUint64(SubSeqOf(i, 1, timestampLengthInBytes))

Type(i) == BigEndianUint16(SubSeqOf(i, timestampLengthInBytes + 1, payloadStart))

\* uint64(t.UnixMicro()): the conversion keeps the 64 bits.
timeToCorrectedUTCTimestamp(tm) == [k \in 1..4 |-> tm[k] % limbBase]

(***************************************************************************)
(* Make.  The entropy source of a sequential call is a finite stream: a    *)
(* sequence of chunks [n, err], the k-th Read returning up to n bytes      *)
(* (never more than asked for) together with err; once the chunks are      *)
(* used up every Read returns (0, io.EOF).  The j-th byte of the stream    *)
(* has the value SourceByte(j), never 0.                                   *)
(***************************************************************************)
EOF == "EOF"
ErrUnexpectedEOF == "ErrUnexpectedEOF"
errRead == "errRead"

SourceByte(j) == 160 + j

\* The k-th Read of the stream.
ReadOf(script, k) ==
    IF k > Len(script) THEN [n |-> 0, err |-> EOF] ELSE script[k]

\* io.ReadAtLeast's loop: for n < min && err == nil { nn, err = r.Read(buf[n:]) }
RECURSIVE ReadLoop(_, _, _, _, _)
ReadLoop(script, k, buf, n, want) ==
    IF n >= want THEN [buf |-> buf, n |-> n, err |-> NoErr]
    ELSE LET r == ReadOf(script, k)
             nn == MinOf(r.n, want - n)
             filled == [i \in 1..want |->
                          IF i > n /\ i <= n + nn THEN SourceByte(i) ELSE buf[i]]
         IN  IF r.err # NoErr
             THEN [buf |-> filled, n |-> n + nn, err |-> r.err]
             ELSE ReadLoop(script, k + 1, filled, n + nn, want)

\* io.ReadFull(r, buf): err is nil exactly when len(buf) bytes were read; an
\* EOF after some but not all bytes is reported as ErrUnexpectedEOF.
ReadFull(script, buf) ==
    LET want == Len(buf)
        l == ReadLoop(script, 1, buf, 0, want)
    IN  IF l.n >= want THEN [buf |-> l.buf, n |-> l.n, err |-> NoErr]
        ELSE IF l.n > 0 /\ l.err = EOF
             THEN [buf |-> l.buf, n |-> l.n, err |-> ErrUnexpectedEOF]
             ELSE l

\* A bug Make could have: the error path without "id = Nil".
MakeLeaky(tm, typ, script) ==
    LET rf == ReadFull(script, [i \in 1..payloadLengthInBytes |-> 0])
        zero == [i \in 1..payloadStart |-> 0]
    IN  IF rf.err # NoErr
        THEN [id |-> zero \o rf.buf, err |-> rf.err]
        ELSE [id |-> PutUint64(timeToCorrectedUTCTimestamp(tm)) \o PutUint16(typ) \o rf.buf,
              err |-> NoErr]

Make(tm, typ, script) ==
    LET rf == ReadFull(script, [i \in 1..payloadLengthInBytes |-> 0])
    IN  IF rf.err # NoErr
        THEN [id |-> Nil, err |-> rf.err]
        ELSE [id |-> PutUint64(timeToCorrectedUTCTimestamp(tm)) \o PutUint16(typ) \o rf.buf,
              err |-> NoErr]

(***************************************************************************)
(* The in-place loaders.  Each returns the receiver's new value and the    *)
(* error.  A value of type any is a record tagged with its dynamic type.   *)
(***************************************************************************)
AnyNil == [kind |-> "nil", val |-> <<>>]
AnyBytes(bs) == [kind |-> "bytes", val |-> bs]
AnyString(str) == [kind |-> "string", val |-> str]
AnyInt == [kind |-> "int", val |-> <<>>]

\* strconv.Quote of a string of letters and digits: the string in double quotes.
Quote(str) == <<34>> \o str \o <<34>>

MarshalText(i) == String(i)

\* A bug UnmarshalText could have: the receiver assigned before the error check.
UnmarshalTextEager(i, bs) ==
    LET r == Parse(bs)
    IN  [recv |-> r.id, err |-> r.err]

UnmarshalText(i, bs) ==
    LET r == Parse(bs)
    IN  IF r.err # NoErr
        THEN [recv |-> i, err |-> r.err]
        ELSE [recv |-> r.id, err |-> NoErr]

Set(i, str) == UnmarshalText(i, str)

MarshalBinary(i) == Bytes(i)

UnmarshalBinary(i, bs) ==
    LET r == FromBytes(bs)
    IN  IF r.err # NoErr
        THEN [recv |-> i, err |-> r.err]
        ELSE [recv |-> r.id, err |-> NoErr]

\* A bug scan could have: no case for the empty input.
scanNoEmpty(i, bs) ==
    IF Len(bs) = byteLength THEN UnmarshalBinary(i, bs)
    ELSE IF Len(bs) = stringEncodedLength THEN UnmarshalText(i, bs)
    ELSE [recv |-> i, err |-> errSize]

scan(i, bs) ==
    IF Len(bs) = 0 THEN [recv |-> Nil, err |-> NoErr]
    ELSE IF Len(bs) = byteLength THEN UnmarshalBinary(i, bs)
    ELSE IF Len(bs) = stringEncodedLength THEN UnmarshalText(i, bs)
    ELSE [recv |-> i, err |-> errSize]

Scan(i, src) ==
    IF src.kind = "nil" THEN scan(i, <<>>)
    ELSE IF src.kind = "bytes" THEN scan(i, src.val)
    ELSE IF src.kind = "string" THEN scan(i, src.val)
    ELSE [recv |-> i, err |-> errScanType]

\* What MarshalGQL writes to w.
MarshalGQL(i) == Quote(String(i))

UnmarshalGQL(i, v) == Scan(i, v)

MarshalJSON(i) == MarshalText(i)

UnmarshalJSON(i, v) == scan(i, v)

Value(i) == IF IsNil(i) THEN AnyNil ELSE AnyString(String(i))

(***************************************************************************)
(* Inputs of the sequential caller                                         *)
(***************************************************************************)
MaxLen == 28

\* Bytes hi before position k, v at k, lo after it.
Pattern(k, v, hi, lo) ==
    [i \in 1..byteLength |-> IF i < k THEN hi ELSE IF i = k THEN v ELSE lo]

CodecIDs ==
    { Pattern(k, v, hi, lo) :
        k \in 1..byteLength, v \in {0, 1, 61, 62, 128, 255}, hi \in {0, 255}, lo \in {0, 255} }

\* The first and last byte of each field.
FieldEdges ==
    {1, timestampLengthInBytes, timestampLengthInBytes + 1, payloadStart,
     payloadStart + 1, byteLength}

PairIDs ==
    { Pattern(k, v, hi, lo) :
        k \in FieldEdges, v \in {0, 1, 255}, hi \in {0, 255}, lo \in {0, 255} }

InvalidChars == {0, 33, 47, 58, 64, 91, 96, 123, 255}

\* The symbols next to c in the alphabet, and its two ends.
NearChars(c) ==
    { base62Char(d) : d \in { e \in {base62Value(c) - 1, base62Value(c), base62Value(c) + 1} :
                               e >= 0 /\ e < base62 } }
    \cup {zeroSymbol, 122}

\* The canonical maximum up to position k - 1, c at k, then a tail.
NearMax(k, c, tail) ==
    [i \in 1..stringEncodedLength |->
        IF i < k THEN maxStringEncoded[i]
        ELSE IF i = k THEN c
        ELSE IF tail = 0 THEN maxStringEncoded[i] ELSE tail]

TextInputs ==
    { NearMax(k, c, tail) :
        k \in 1..stringEncodedLength,
        c \in InvalidChars \cup {x \in 48..122 : InAlphabet(x)},
        tail \in {0} }
    \cup
    { NearMax(k, c, tail) :
        c \in {48, 49, 85, 86, 87, 97, 98, 122}, k \in 1..stringEncodedLength,
        tail \in {zeroSymbol, 122} }
    \cup
    { [i \in 1..n |-> c] : n \in 0..MaxLen, c \in {zeroSymbol, 97, 122, 33} }

ByteInputs ==
    { [i \in 1..n |-> v] : n \in 0..MaxLen, v \in {0, 7, 255} }
    \cup { [i \in 1..n |-> (37 * i) % 256] : n \in 0..MaxLen }

\* UnixMicro() of the times Make is called with: the epoch, 1us after it,
\* 2024-01-01T00:00:00.000001Z, 1us before the epoch.
Times ==
    { <<0, 0, 0, 0>>, <<0, 0, 0, 1>>, <<6, 3542, 62916, 36865>>,
      <<65535, 65535, 65535, 65535>> }

Types == {7, 42, 65535}

MaxReads == 3

Chunk(n, e) == [n |-> n, err |-> e]

ChunkSizes == {0, 4, 6, 10}

\* Streams of up to MaxReads chunks; only the last chunk carries an error,
\* since no Read follows a failed one.
RECURSIVE ScriptsOfLen(_)
ScriptsOfLen(n) ==
    IF n = 0 THEN { <<>> }
    ELSE { Append(q, Chunk(c, NoErr)) : q \in ScriptsOfLen(n - 1), c \in ChunkSizes }

Scripts ==
    UNION { { Append(q, Chunk(c, e)) :
                q \in ScriptsOfLen(n), c \in ChunkSizes, e \in {NoErr, EOF, errRead} } :
            n \in 0..(MaxReads - 1) }
    \cup { <<>> }

\* What the second Make of a pair reads from.
PairScripts == { <<Chunk(10, NoErr)>>, <<Chunk(6, NoErr), Chunk(4, EOF)>> }

LoadIDs == { Nil, Max, Pattern(timestampLengthInBytes, 1, 0, 255) }

TextIDs == { Max, Pattern(timestampLengthInBytes, 1, 0, 255) }

\* Nothing, five characters, 27 characters out of range, and identifiers in
\* their binary, text and quoted text forms.
LoadInputs ==
    { <<>>, <<48, 49, 50, 51, 52>>, [i \in 1..stringEncodedLength |-> 122],
      Quote(String(Max)) }
    \cup { Bytes(x) : x \in LoadIDs }
    \cup { String(x) : x \in TextIDs }

ScanInputs ==
    { AnyNil, AnyInt, AnyBytes(<<>>), AnyBytes(String(Max)), AnyString(<<>>),
      AnyString(<<48, 49, 50, 51, 52>>), AnyString(Quote(String(Max))),
      AnyString([i \in 1..stringEncodedLength |-> 122]) }
    \cup { AnyBytes(Bytes(x)) : x \in TextIDs }
    \cup { AnyString(String(x)) : x \in TextIDs }

NoRet == [id |-> Nil, err |-> NoErr]
NoArg == [op |-> "none"]

(***************************************************************************)
(* The entropy pool's initial state: the buffer empty, nothing drawn.      *)
(***************************************************************************)
Procs == {"g1", "g2"}

newEntropyPool == [r |-> 0, w |-> 0, base |-> 0]

InitGoroutine ==
    [pc |-> "idle", src |-> "none", new |-> "none", got |-> <<>>, err |-> NoErr,
     calls |-> 0, made |-> <<>>]

InitPool ==
    /\ source = "pool"
    /\ mux = "free"
    /\ buffer = newEntropyPool
    /\ drawn = 0
    /\ gor = [p \in Procs |-> InitGoroutine]

InitSeq ==
    /\ pc = "start"
    /\ a = Nil
    /\ b = Nil
    /\ s = <<>>
    /\ t = <<>>
    /\ arg = NoArg
    /\ ret = NoRet
    /\ recv = Nil

Init == InitSeq /\ InitPool

(***************************************************************************)
(* The sequential caller's steps                                           *)
(***************************************************************************)
\* s := a.String(), for an identifier a
CallString ==
    /\ pc = "start"
    /\ \E x \in CodecIDs :
         /\ a' = x
         /\ s' = String(x)
         /\ arg' = [op |-> "String"]
    /\ pc' = "encoded"
    /\ UNCHANGED <<b, t, ret, recv, poolVars>>

\* Parse(s) of the string a.String() returned
CallParseEncoded ==
    /\ pc = "encoded"
    /\ ret' = Parse(s)
    /\ arg' = [op |-> "Parse"]
    /\ pc' = "roundtrip"
    /\ UNCHANGED <<a, b, s, t, recv, poolVars>>

\* Parse(s) of any text
CallParse ==
    /\ pc = "start"
    /\ \E str \in TextInputs :
         /\ s' = str
         /\ ret' = Parse(str)
    /\ arg' = [op |-> "Parse"]
    /\ pc' = "parsed"
    /\ UNCHANGED <<a, b, t, recv, poolVars>>

\* FromBytes(s) of any byte slice
CallFromBytes ==
    /\ pc = "start"
    /\ \E bs \in ByteInputs :
         /\ s' = bs
         /\ ret' = FromBytes(bs)
    /\ arg' = [op |-> "FromBytes"]
    /\ pc' = "frombytes"
    /\ UNCHANGED <<a, b, t, recv, poolVars>>

\* Compare(a, b)
CallCompare ==
    /\ pc = "start"
    /\ \E x \in PairIDs, y \in PairIDs :
         /\ a' = x
         /\ b' = y
         /\ ret' = [cmp |-> Compare(x, y), err |-> NoErr]
    /\ arg' = [op |-> "Compare"]
    /\ pc' = "compared"
    /\ UNCHANGED <<s, t, recv, poolVars>>

\* s := a.String(); t := b.String() of the identifiers compared
CallStringBoth ==
    /\ pc = "compared"
    /\ s' = String(a)
    /\ t' = String(b)
    /\ pc' = "comparedText"
    /\ UNCHANGED <<a, b, arg, ret, recv, poolVars>>

\* a, err := Make(tm, typ), the source delivering script
CallMake ==
    /\ pc = "start"
    /\ \E tm \in Times, typ \in Types, script \in Scripts :
         /\ ret' = Make(tm, typ, script)
         /\ arg' = [op |-> "Make", tm |-> tm, typ |-> typ, script |-> script]
    /\ a' = ret'.id
    /\ pc' = "made"
    /\ UNCHANGED <<b, s, t, recv, poolVars>>

\* b, err := Make(tm, typ) after a first one succeeded, then Compare(a, b)
CallMakeSecond ==
    /\ pc = "made"
    /\ ret.err = NoErr
    /\ \E tm \in Times, typ \in Types, script \in PairScripts :
         LET m == Make(tm, typ, script)
         IN  /\ m.err = NoErr
             /\ b' = m.id
             /\ ret' = [cmp |-> Compare(a, m.id), err |-> NoErr]
             /\ arg' = [op |-> "Make2", tm |-> arg.tm, tm2 |-> tm, typ |-> typ,
                        script |-> script]
    /\ pc' = "madeBoth"
    /\ UNCHANGED <<a, s, t, recv, poolVars>>

\* The caller may load the receiver whenever no other call is under way.
CanLoad == pc \in {"start", "loaded"}

Loaded(op, in, r) ==
    /\ recv' = r.recv
    /\ ret' = [id |-> r.recv, err |-> r.err]
    /\ arg' = [op |-> op, in |-> in]
    /\ pc' = "loaded"
    /\ UNCHANGED <<a, b, s, t, poolVars>>

CallSet ==
    /\ CanLoad
    /\ \E str \in LoadInputs : Loaded("Set", AnyString(str), Set(recv, str))

CallUnmarshalText ==
    /\ CanLoad
    /\ \E bs \in LoadInputs : Loaded("UnmarshalText", AnyBytes(bs), UnmarshalText(recv, bs))

CallUnmarshalBinary ==
    /\ CanLoad
    /\ \E bs \in LoadInputs : Loaded("UnmarshalBinary", AnyBytes(bs), UnmarshalBinary(recv, bs))

CallUnmarshalJSON ==
    /\ CanLoad
    /\ \E bs \in LoadInputs : Loaded("UnmarshalJSON", AnyBytes(bs), UnmarshalJSON(recv, bs))

CallUnmarshalGQL ==
    /\ CanLoad
    /\ \E v \in ScanInputs : Loaded("UnmarshalGQL", v, UnmarshalGQL(recv, v))

CallScan ==
    /\ CanLoad
    /\ \E v \in ScanInputs : Loaded("Scan", v, Scan(recv, v))

\* What each marshal adapter hands to the outside, as the value its paired
\* unmarshal adapter is then given.
Adapters == {"Text", "Binary", "JSON", "GQL", "Value"}

Marshalled(ad, i) ==
    CASE ad = "Text" -> AnyBytes(MarshalText(i))
      [] ad = "Binary" -> AnyBytes(MarshalBinary(i))
      [] ad = "JSON" -> AnyBytes(MarshalJSON(i))
      [] ad = "GQL" -> AnyString(MarshalGQL(i))
      [] ad = "Value" -> Value(i)

Unmarshalled(ad, i, v) ==
    CASE ad = "Text" -> UnmarshalText(i, v.val)
      [] ad = "Binary" -> UnmarshalBinary(i, v.val)
      [] ad = "JSON" -> UnmarshalJSON(i, v.val)
      [] ad = "GQL" -> UnmarshalGQL(i, v)
      [] ad = "Value" -> Scan(i, v)

UnmarshalName(ad) ==
    CASE ad = "Text" -> "UnmarshalText"
      [] ad = "Binary" -> "UnmarshalBinary"
      [] ad = "JSON" -> "UnmarshalJSON"
      [] ad = "GQL" -> "UnmarshalGQL"
      [] ad = "Value" -> "Scan"

\* t := the output of a marshal adapter for the identifier a
CallMarshal ==
    /\ CanLoad
    /\ \E x \in LoadIDs, ad \in Adapters :
         /\ a' = x
         /\ t' = Marshalled(ad, x)
         /\ arg' = [op |-> ad]
    /\ pc' = "marshalled"
    /\ UNCHANGED <<b, s, ret, recv, poolVars>>

\* the paired unmarshal adapter, given t, loads the receiver
CallUnmarshalPaired ==
    /\ pc = "marshalled"
    /\ LET r == Unmarshalled(arg.op, recv, t)
       IN  /\ recv' = r.recv
           /\ ret' = [id |-> r.recv, err |-> r.err]
    /\ arg' = [op |-> UnmarshalName(arg.op), in |-> t]
    /\ pc' = "restored"
    /\ UNCHANGED <<a, b, s, t, poolVars>>

Next ==
    \/ CallString
    \/ CallParseEncoded
    \/ CallParse
    \/ CallFromBytes
    \/ CallCompare
    \/ CallStringBoth
    \/ CallMake
    \/ CallMakeSecond
    \/ CallSet
    \/ CallUnmarshalText
    \/ CallUnmarshalBinary
    \/ CallUnmarshalJSON
    \/ CallUnmarshalGQL
    \/ CallScan
    \/ CallMarshal
    \/ CallUnmarshalPaired

Spec == Init /\ [][Next]_vars

(***************************************************************************)
(* Properties of the sequential calls                                      *)
(***************************************************************************)
\* strcmp: the sign of the first differing byte, a proper prefix first.
StrCmp(x, y) ==
    LET diff == { i \in 1..MinOf(Len(x), Len(y)) : x[i] # y[i] }
    IN  IF diff = {}
        THEN Sign(Len(x) - Len(y))
        ELSE LET i == CHOOSE k \in diff : \A j \in diff : k <= j
             IN  Sign(x[i] - y[i])

HasInvalidChar(str) == \E i \in 1..Len(str) : ~InAlphabet(str[i])

\* C1: Parse(b.String()) returns no error and an identifier equal to b, for
\* every identifier b, Nil and Max included.
C1_RoundTrip ==
    pc = "roundtrip" => ret = [id |-> a, err |-> NoErr]

C1_Witness ==
    /\ pc = "roundtrip"
    /\ a = Max
    /\ s = maxStringEncoded
    /\ ret.id = Max

\* C2: the sign of Compare(a, b) is the sign of the byte-wise comparison of
\* a.String() and b.String(), and both strings have exactly 27 characters.
C2_OrderPreserved ==
    pc = "comparedText" =>
        /\ Len(s) = stringEncodedLength
        /\ Len(t) = stringEncodedLength
        /\ Sign(ret.cmp) = Sign(StrCmp(s, t))

C2_Witness ==
    /\ pc = "comparedText"
    /\ ret.cmp = 1
    /\ a[1] = b[1]
    /\ StrCmp(s, t) = 1

\* C3: Parse of a 27-character string that holds a character outside the
\* alphabet, or that is greater than the canonical maximum string, returns
\* Nil and the string-value error.
C3_RangeRejected ==
    (/\ pc = "parsed"
     /\ Len(s) = stringEncodedLength
     /\ (HasInvalidChar(s) \/ StrCmp(s, maxStringEncoded) > 0))
    => ret = [id |-> Nil, err |-> errStrValue]

\* The canonical maximum with its last symbol raised by one.
C3_Witness ==
    /\ pc = "parsed"
    /\ s = [maxStringEncoded EXCEPT ![stringEncodedLength] = 87]
    /\ ret.err = errStrValue

\* C4: Parse of a string whose length is not 27 returns Nil and the
\* string-size error; FromBytes of a slice whose length is not 20 returns Nil
\* and the size error, and of a slice of 20 bytes an identifier of those bytes
\* and no error.
C4_LengthRejected ==
    /\ (pc = "parsed" /\ Len(s) # stringEncodedLength)
         => ret = [id |-> Nil, err |-> errStrSize]
    /\ (pc = "frombytes" /\ Len(s) # byteLength)
         => ret = [id |-> Nil, err |-> errSize]
    /\ (pc = "frombytes" /\ Len(s) = byteLength)
         => ret = [id |-> s, err |-> NoErr]

C4_Witness ==
    /\ pc = "frombytes"
    /\ Len(s) = byteLength + 1
    /\ ret.err = errSize

\* The Read at which the stream first returns an error.
RECURSIVE FirstFailure(_, _)
FirstFailure(script, k) ==
    IF ReadOf(script, k).err # NoErr THEN k ELSE FirstFailure(script, k + 1)

RECURSIVE Offered(_, _)
Offered(script, k) ==
    IF k = 0 THEN 0 ELSE Offered(script, k - 1) + ReadOf(script, k).n

\* The bytes the stream has supplied when it first fails.
SuppliedAtFailure(script) == Offered(script, FirstFailure(script, 1))

SourceError(script) == ReadOf(script, FirstFailure(script, 1)).err

FailsEarly(script) == SuppliedAtFailure(script) < payloadLengthInBytes

Payload(i) == SubSeqOf(i, payloadStart + 1, byteLength)

FromSource(i) ==
    /\ ~FailsEarly(arg.script)
    /\ Payload(i) = [j \in 1..payloadLengthInBytes |-> SourceByte(j)]

RECURSIVE LimbCompareFrom(_, _, _)
LimbCompareFrom(x, y, k) ==
    IF k > Len(x) THEN 0
    ELSE IF x[k] # y[k] THEN Sign(x[k] - y[k])
    ELSE LimbCompareFrom(x, y, k + 1)

LimbCompare(x, y) == LimbCompareFrom(x, y, 1)

\* The 80-bit payload as five 16-bit limbs.
PayloadValue(i) ==
    [k \in 1..5 |-> i[payloadStart + 2 * k - 1] * 256 + i[payloadStart + 2 * k]]

\* (Timestamp, Type, payload) compared field by field.
TripleCompare(x, y) ==
    IF LimbCompare(Timestamp(x), Timestamp(y)) # 0
    THEN LimbCompare(Timestamp(x), Timestamp(y))
    ELSE IF Type(x) # Type(y) THEN Sign(Type(x) - Type(y))
    ELSE LimbCompare(PayloadValue(x), PayloadValue(y))

ParsedValue(in) ==
    IF in.kind = "nil" \/ Len(in.val) = 0 THEN Nil
    ELSE IF Len(in.val) = byteLength THEN in.val
    ELSE Parse(in.val).id

\* C9: a call of Set, UnmarshalText, UnmarshalBinary, UnmarshalJSON,
\* UnmarshalGQL or Scan that returns an error leaves the receiver's 20 bytes
\* as they were, and one that returns nil overwrites them with the parsed
\* value (Nil for an empty or null input).
C9_FailedLoadKeepsReceiver ==
    [][ pc' \in {"loaded", "restored"} =>
          IF ret'.err # NoErr
          THEN recv' = recv
          ELSE recv' = ParsedValue(arg'.in) ]_vars

C9_Witness ==
    /\ pc = "loaded"
    /\ arg.op = "UnmarshalText"
    /\ ret.err = errStrValue
    /\ recv = Max

\* C10 as claimed: each unmarshal adapter, given what its paired marshal
\* adapter emits for an identifier, returns no error and leaves the receiver
\* equal to the identifier.
C10_AsClaimed ==
    pc = "restored" => (ret.err = NoErr /\ recv = a)

\* C10, amended: that holds of MarshalText/UnmarshalText,
\* MarshalBinary/UnmarshalBinary, MarshalJSON/UnmarshalJSON and Value/Scan;
\* the string MarshalGQL writes is the 27 characters in double quotes, which
\* UnmarshalGQL refuses with the size error.
C10_PairedAdapters ==
    pc = "restored" =>
        IF arg.op = "UnmarshalGQL"
        THEN ret.err = errSize /\ Len(t.val) = stringEncodedLength + 2
        ELSE ret.err = NoErr /\ recv = a

C10_Witness ==
    /\ pc = "restored"
    /\ arg.op = "UnmarshalJSON"
    /\ a = Max
    /\ recv = Max
    /\ ret.err = NoErr

(***************************************************************************)
(* Concurrent callers of Make and SetSource.                               *)
(*                                                                         *)
(* A byte of the pool's bufio.Reader is named by its position in the       *)
(* stream the pool draws from crypto/rand (1, 2, ...); a byte read from    *)
(* another source is 0.  crypto/rand fills the whole slice it is given or  *)
(* fails with no byte, so the bufio.Reader never holds a deferred error.   *)
(* The source reference is an interface value written and read without     *)
(* synchronisation: a read that races with a write may see the old value,  *)
(* the new one or a mix of the two ("torn"), and so may memory after two   *)
(* racing writes.                                                          *)
(***************************************************************************)
MaxCalls == 2
BufSize == 12

Others(p) == Procs \ {p}

Storing(p) == { q \in Others(p) : gor[q].pc = "store" }

Go(p, f) == gor' = [gor EXCEPT ![p] = f]

\* Make is entered: id is all zero, nothing read yet.
MakeCall(p) ==
    /\ gor[p].pc = "idle"
    /\ gor[p].calls < MaxCalls
    /\ Go(p, [gor[p] EXCEPT !.pc = "load", !.got = <<>>, !.err = NoErr])
    /\ UNCHANGED <<seqVars, source, mux, buffer, drawn>>

\* Make evaluates the package variable source, with no lock held.
LoadSource(p) ==
    /\ gor[p].pc = "load"
    /\ \E v \in {source} \cup (IF Storing(p) = {} THEN {}
                               ELSE {"torn"} \cup { gor[q].new : q \in Storing(p) }) :
         Go(p, [gor[p] EXCEPT !.pc = "readfull", !.src = v])
    /\ UNCHANGED <<seqVars, source, mux, buffer, drawn>>

Wanted(p) == payloadLengthInBytes - Len(gor[p].got)

\* io.ReadFull goes on while n < min and err == nil.
Reading(p) ==
    /\ gor[p].pc = "readfull"
    /\ Wanted(p) > 0
    /\ gor[p].err = NoErr

\* entropyPool.Read is called
PoolReadCall(p) ==
    /\ Reading(p)
    /\ gor[p].src = "pool"
    /\ Go(p, [gor[p] EXCEPT !.pc = "lock"])
    /\ UNCHANGED <<seqVars, source, mux, buffer, drawn>>

\* r.mux.Lock()
PoolLock(p) ==
    /\ gor[p].pc = "lock"
    /\ mux = "free"
    /\ mux' = p
    /\ Go(p, [gor[p] EXCEPT !.pc = "locked"])
    /\ UNCHANGED <<seqVars, source, buffer, drawn>>

Positions(from, n) == [i \in 1..n |-> from + i]

\* bufio.Reader.Read(p) with len(p) = k: an empty buffer is refilled by one
\* Read of crypto/rand (ok: it fills the buffer; otherwise it fails), then as
\* much as is buffered, at most k bytes, is copied out.
BufioRead(bf, dr, k, ok) ==
    IF bf.r = bf.w
    THEN IF k >= BufSize
         THEN IF ok
              THEN [buffer |-> bf, drawn |-> dr + k, bytes |-> Positions(dr, k), err |-> NoErr]
              ELSE [buffer |-> bf, drawn |-> dr, bytes |-> <<>>, err |-> errRead]
         ELSE IF ok
              THEN LET n == MinOf(k, BufSize)
                   IN  [buffer |-> [r |-> n, w |-> BufSize, base |-> dr],
                        drawn |-> dr + BufSize, bytes |-> Positions(dr, n), err |-> NoErr]
              ELSE [buffer |-> [r |-> 0, w |-> 0, base |-> bf.base],
                    drawn |-> dr, bytes |-> <<>>, err |-> errRead]
    ELSE LET n == MinOf(k, bf.w - bf.r)
         IN  [buffer |-> [bf EXCEPT !.r = bf.r + n],
              drawn |-> dr, bytes |-> Positions(bf.base + bf.r, n), err |-> NoErr]

\* r.buffer.Read(p), under the lock
PoolBufferRead(p) ==
    /\ gor[p].pc = "locked"
    /\ \E ok \in BOOLEAN :
         LET rd == BufioRead(buffer, drawn, Wanted(p), ok)
         IN  /\ buffer' = rd.buffer
             /\ drawn' = rd.drawn
             /\ Go(p, [gor[p] EXCEPT !.pc = "unlock", !.got = @ \o rd.bytes,
                                      !.err = rd.err])
    /\ UNCHANGED <<seqVars, source, mux>>

\* A bug Read could have: the lock released only when the read succeeded.
PoolUnlockOnSuccess(p) ==
    /\ gor[p].pc = "unlock"
    /\ mux' = IF gor[p].err = NoErr THEN "free" ELSE mux
    /\ Go(p, [gor[p] EXCEPT !.pc = "readfull"])
    /\ UNCHANGED <<seqVars, source, buffer, drawn>>

\* the deferred r.mux.Unlock(), as Read returns
PoolUnlock(p) ==
    /\ gor[p].pc = "unlock"
    /\ mux' = "free"
    /\ Go(p, [gor[p] EXCEPT !.pc = "readfull"])
    /\ UNCHANGED <<seqVars, source, buffer, drawn>>

\* Read of a source that is not the pool: all the bytes asked for, or an error
DirectRead(p) ==
    /\ Reading(p)
    /\ gor[p].src \in {"rand", "user"}
    /\ \/ Go(p, [gor[p] EXCEPT !.got = @ \o [i \in 1..Wanted(p) |-> 0]])
       \/ Go(p, [gor[p] EXCEPT !.err = errRead])
    /\ UNCHANGED <<seqVars, source, mux, buffer, drawn>>

\* Read through a torn interface value: the goroutine is lost
TornRead(p) ==
    /\ Reading(p)
    /\ gor[p].src = "torn"
    /\ Go(p, [gor[p] EXCEPT !.pc = "crashed"])
    /\ UNCHANGED <<seqVars, source, mux, buffer, drawn>>

\* io.ReadFull returns and Make with it: Nil on an error, the payload otherwise
MakeReturn(p) ==
    /\ gor[p].pc = "readfull"
    /\ ~Reading(p)
    /\ LET n == Len(gor[p].got)
           e == IF n >= payloadLengthInBytes THEN NoErr
                ELSE IF n > 0 /\ gor[p].err = EOF THEN ErrUnexpectedEOF
                ELSE gor[p].err
           result == [payload |-> IF e = NoErr THEN gor[p].got
                                  ELSE [i \in 1..payloadLengthInBytes |-> 0],
                      read |-> gor[p].got, err |-> e, src |-> gor[p].src]
       IN  Go(p, [gor[p] EXCEPT !.pc = "idle", !.calls = @ + 1,
                                !.made = Append(@, result)])
    /\ UNCHANGED <<seqVars, source, mux, buffer, drawn>>

\* SetSource(src) is entered; a nil src stands for rand.Reader
SetSourceCall(p) ==
    /\ gor[p].pc = "idle"
    /\ gor[p].calls < MaxCalls
    /\ \E src \in {"nil", "user"} :
         Go(p, [gor[p] EXCEPT !.pc = "store",
                              !.new = IF src = "nil" THEN "rand" ELSE src])
    /\ UNCHANGED <<seqVars, source, mux, buffer, drawn>>

\* source = ..., with no lock held
StoreSource(p) ==
    /\ gor[p].pc = "store"
    /\ \E v \in {gor[p].new} \cup
                (IF \E q \in Storing(p) : gor[q].new # gor[p].new THEN {"torn"} ELSE {}) :
         source' = v
    /\ Go(p, [gor[p] EXCEPT !.pc = "idle", !.calls = @ + 1])
    /\ UNCHANGED <<seqVars, mux, buffer, drawn>>

NextPool ==
    \E p \in Procs :
        \/ MakeCall(p)
        \/ LoadSource(p)
        \/ PoolReadCall(p)
        \/ PoolLock(p)
        \/ PoolBufferRead(p)
        \/ PoolUnlock(p)
        \/ DirectRead(p)
        \/ TornRead(p)
        \/ MakeReturn(p)
        \/ SetSourceCall(p)
        \/ StoreSource(p)

SpecPool == Init /\ [][NextPool]_vars

(***************************************************************************)
(* Properties of the concurrent calls                                      *)
(***************************************************************************)
\* The calls of Make that returned a payload read from the pool.
PoolPayloads ==
    { <<p, k>> \in Procs \X (1..MaxCalls) :
        /\ k <= Len(gor[p].made)
        /\ gor[p].made[k].src = "pool"
        /\ gor[p].made[k].err = NoErr }

PayloadOf(c) == gor[c[1]].made[c[2]].payload

Contiguous(q) == \A i \in 1..(Len(q) - 1) : q[i + 1] = q[i] + 1

BytesOf(q) == { q[i] : i \in 1..Len(q) }

\* C6: the 10 payload bytes each Make receives from the pool are one
\* contiguous run of the pool's stream, and no byte of the stream is
\* delivered to two callers, also when a Read of the pool returns fewer bytes
\* than asked for and a further Read completes the fill.
C6_NoInterleaving ==
    /\ \A c \in PoolPayloads : Contiguous(PayloadOf(c))
    /\ \A c, d \in PoolPayloads :
         c # d => BytesOf(PayloadOf(c)) \cap BytesOf(PayloadOf(d)) = {}

InRead(p) == gor[p].pc \in {"locked", "unlock"}

\* The mutex is held by exactly the goroutine that is inside Read between
\* Lock and the deferred Unlock.
MuxHeldInsideRead == \A p \in Procs : InRead(p) <=> mux = p

\* Every change of the pool's buffer is made by the goroutine holding the mutex.
BufferWrittenUnderLock ==
    [][ (buffer' # buffer \/ drawn' # drawn) =>
          (mux \in Procs /\ gor[mux].pc = "locked" /\ mux' = mux) ]_vars

\* No goroutine writes the source reference while another reads or writes it,
\* unless the writer holds the mutex.
SourceWrittenUnderLock ==
    \A p \in Procs : \A q \in Others(p) :
        (gor[p].pc = "store" /\ gor[q].pc \in {"load", "store"}) => mux = p

=============================================================================
